---- MODULE Spec2Model ----
(***************************************************************************)
(* A model of the sales chatbot: the keyword query interpreter             *)
(* (app/nlp_processor.py), the analytics router (app/main.py,              *)
(* handle_query), the five aggregators (app/analytics_engine.py), the      *)
(* summarizer (app/insight_generator.py, summarize), the chart chooser     *)
(* (app/visualization.py, visualize_result) and the console read loop      *)
(* (app/main.py, run_cli).                                                 *)
(*                                                                         *)
(* Text is modelled by TLA+ strings, read character by character with Len  *)
(* and SubSeq.  Python's None is the empty tuple and a present optional    *)
(* value v is the one-element tuple <<v>>, so that None and the empty list *)
(* stay different values.  Money amounts are whole numbers of cents.       *)
(***************************************************************************)
EXTENDS Integers, Sequences, FiniteSets, TLC

VARIABLES
    pc,               \* position of the process: "input", "parsed", "routed", "read", "done", "crashed"
    data,             \* the in-memory dataset: a set of rows
    message,          \* the text being interpreted
    parsed,           \* Some(ParsedQuery) once the message was parsed
    calls,            \* the aggregator calls the router made for the last query
    result,           \* what handle_query returned for the last query
    applied,          \* the filters the aggregator applied for the last query
    last_result,      \* run_cli's memory of the last successful query
    last_summary,
    last_chart_path,
    history           \* the log of what each loop iteration did (for the properties)

vars == <<pc, data, message, parsed, calls, result, applied,
          last_result, last_summary, last_chart_path, history>>

None == <<>>
Some(v) == <<v>>

-----------------------------------------------------------------------------
(* Bounds of the model *)

MaxWords == 2
MaxRows == 3
MaxSteps == 3

-----------------------------------------------------------------------------
(* Characters and the string functions of Python and of the re module *)

Digits == {"0", "1", "2", "3", "4", "5", "6", "7", "8", "9"}

LowerLetters == {"a", "b", "c", "d", "e", "f", "g", "h", "i", "j", "k", "l", "m",
                 "n", "o", "p", "q", "r", "s", "t", "u", "v", "w", "x", "y", "z"}

UpperLetters == {"A", "B", "C", "D", "E", "F", "G", "H", "I", "J", "K", "L", "M",
                 "N", "O", "P", "Q", "R", "S", "T", "U", "V", "W", "X", "Y", "Z"}

\* regex \w
IsWordChar(c) == c \in Digits \cup LowerLetters \cup UpperLetters \cup {"_"}

\* regex \s
IsSpace(c) == c = " "

CharAt(s, i) == SubSeq(s, i, i)

LowerChar(c) ==
    CASE c = "A" -> "a" [] c = "B" -> "b" [] c = "C" -> "c" [] c = "D" -> "d"
      [] c = "E" -> "e" [] c = "F" -> "f" [] c = "G" -> "g" [] c = "H" -> "h"
      [] c = "I" -> "i" [] c = "J" -> "j" [] c = "K" -> "k" [] c = "L" -> "l"
      [] c = "M" -> "m" [] c = "N" -> "n" [] c = "O" -> "o" [] c = "P" -> "p"
      [] c = "Q" -> "q" [] c = "R" -> "r" [] c = "S" -> "s" [] c = "T" -> "t"
      [] c = "U" -> "u" [] c = "V" -> "v" [] c = "W" -> "w" [] c = "X" -> "x"
      [] c = "Y" -> "y" [] c = "Z" -> "z" [] OTHER -> c

UpperChar(c) ==
    CASE c = "n" -> "N" [] c = "s" -> "S" [] c = "e" -> "E" [] c = "w" -> "W"
      [] OTHER -> c

RECURSIVE Lower(_)
\* str.lower()
Lower(s) == IF s = "" THEN "" ELSE LowerChar(CharAt(s, 1)) \o Lower(SubSeq(s, 2, Len(s)))

\* str.capitalize(): first character upper-cased, the rest lower-cased
Capitalize(s) == IF s = "" THEN "" ELSE UpperChar(CharAt(s, 1)) \o Lower(SubSeq(s, 2, Len(s)))

RECURSIVE LStrip(_)
LStrip(s) == IF s # "" /\ IsSpace(CharAt(s, 1)) THEN LStrip(SubSeq(s, 2, Len(s))) ELSE s

RECURSIVE RStrip(_)
RStrip(s) == IF s # "" /\ IsSpace(CharAt(s, Len(s))) THEN RStrip(SubSeq(s, 1, Len(s) - 1)) ELSE s

\* str.strip()
Strip(s) == RStrip(LStrip(s))

\* the positions where pat occurs in text
Occurrences(text, pat) ==
    {i \in 1..(Len(text) - Len(pat) + 1) : SubSeq(text, i, i + Len(pat) - 1) = pat}

\* Python's `pat in text`
Contains(text, pat) == Occurrences(text, pat) # {}

\* str.startswith
StartsWith(text, pat) == Len(text) >= Len(pat) /\ SubSeq(text, 1, Len(pat)) = pat

DigitValue(c) ==
    CASE c = "0" -> 0 [] c = "1" -> 1 [] c = "2" -> 2 [] c = "3" -> 3 [] c = "4" -> 4
      [] c = "5" -> 5 [] c = "6" -> 6 [] c = "7" -> 7 [] c = "8" -> 8 [] c = "9" -> 9

RECURSIVE ParseInt(_)
\* int() of a string of decimal digits
ParseInt(s) ==
    IF s = "" THEN 0
    ELSE 10 * ParseInt(SubSeq(s, 1, Len(s) - 1)) + DigitValue(CharAt(s, Len(s)))

Max(a, b) == IF a >= b THEN a ELSE b

Min(a, b) == IF a <= b THEN a ELSE b

\* regex \b at the gap before position i (1 .. Len(text)+1)
WordBoundary(text, i) ==
    LET before == i > 1 /\ IsWordChar(CharAt(text, i - 1))
        after == i <= Len(text) /\ IsWordChar(CharAt(text, i))
    IN before # after

\* the positions where the regex \b20\d{2}\b matches
YearMatches(text) ==
    {i \in 1..(Len(text) - 3) :
        /\ WordBoundary(text, i)
        /\ CharAt(text, i) = "2"
        /\ CharAt(text, i + 1) = "0"
        /\ CharAt(text, i + 2) \in Digits
        /\ CharAt(text, i + 3) \in Digits
        /\ WordBoundary(text, i + 4)}

RECURSIVE SortedSeq(_)
\* sorted(set of ints)
SortedSeq(S) ==
    IF S = {} THEN <<>>
    ELSE LET m == CHOOSE x \in S : \A y \in S : x <= y
         IN <<m>> \o SortedSeq(S \ {m})

Range(seq) == {seq[i] : i \in 1..Len(seq)}


-----------------------------------------------------------------------------
(* app/nlp_processor.py: the query interpreter *)

REGIONS == <<"north", "south", "east", "west">>

ParsedQuery(intent, years, regions, top_n) ==
    [intent |-> intent, years |-> years, regions |-> regions, top_n |-> top_n]

\* detect_intent with the product rule tried before the region rule
detect_intent_TopBeforeRegion(msg) ==
    LET text == Lower(msg)
    IN IF (\E word \in {"compare", "vs", "versus"} : Contains(text, word))
          /\ YearMatches(text) # {}
       THEN "year_comparison"
       ELSE IF Contains(text, "trend") \/ Contains(text, "over time") \/ Contains(text, "monthly")
       THEN "monthly_trend"
       ELSE IF Contains(text, "top") \/ Contains(text, "best") \/ Contains(text, "highest")
       THEN "top_products"
       ELSE IF Contains(text, "region") \/ (\E i \in 1..Len(REGIONS) : Contains(text, REGIONS[i]))
       THEN "sales_by_region"
       ELSE IF Contains(text, "total") \/ Contains(text, "overall") \/ Contains(text, "revenue")
       THEN "total_sales"
       ELSE "unknown"

\* detect_intent with the trend rule tried before the comparison rule
detect_intent_TrendFirst(msg) ==
    LET text == Lower(msg)
    IN IF Contains(text, "trend") \/ Contains(text, "over time") \/ Contains(text, "monthly")
       THEN "monthly_trend"
       ELSE IF (\E word \in {"compare", "vs", "versus"} : Contains(text, word))
               /\ YearMatches(text) # {}
       THEN "year_comparison"
       ELSE IF Contains(text, "region") \/ (\E i \in 1..Len(REGIONS) : Contains(text, REGIONS[i]))
       THEN "sales_by_region"
       ELSE IF Contains(text, "top") \/ Contains(text, "best") \/ Contains(text, "highest")
       THEN "top_products"
       ELSE IF Contains(text, "total") \/ Contains(text, "overall") \/ Contains(text, "revenue")
       THEN "total_sales"
       ELSE "unknown"

detect_intent(msg) ==
    LET text == Lower(msg)
    IN IF (\E word \in {"compare", "vs", "versus"} : Contains(text, word))
          /\ YearMatches(text) # {}
       THEN "year_comparison"
       ELSE IF Contains(text, "trend") \/ Contains(text, "over time") \/ Contains(text, "monthly")
       THEN "monthly_trend"
       ELSE IF Contains(text, "region") \/ (\E i \in 1..Len(REGIONS) : Contains(text, REGIONS[i]))
       THEN "sales_by_region"
       ELSE IF Contains(text, "top") \/ Contains(text, "best") \/ Contains(text, "highest")
       THEN "top_products"
       ELSE IF Contains(text, "total") \/ Contains(text, "overall") \/ Contains(text, "revenue")
       THEN "total_sales"
       ELSE "unknown"

\* re.findall returns the matches left to right without overlap; two matches
\* of \b20\d{2}\b cannot overlap, so the matches are all the matching positions.
extract_years(msg) ==
    SortedSeq({ParseInt(SubSeq(msg, i, i + 3)) : i \in YearMatches(msg)})

RECURSIVE Unique(_)
\* the de-duplication loop: keeps the first occurrence of each element
Unique(seq) ==
    IF seq = <<>> THEN <<>>
    ELSE LET init == Unique(SubSeq(seq, 1, Len(seq) - 1))
             x == seq[Len(seq)]
         IN IF x \in Range(init) THEN init ELSE Append(init, x)

RECURSIVE FoundRegions(_, _)
\* the scan of REGIONS from index i on, appending the capitalized names found
FoundRegions(text, i) ==
    IF i > Len(REGIONS) THEN <<>>
    ELSE (IF Contains(text, REGIONS[i]) THEN <<Capitalize(REGIONS[i])>> ELSE <<>>)
         \o FoundRegions(text, i + 1)

extract_regions(msg) == Unique(FoundRegions(Lower(msg), 1))

RECURSIVE SkipSpaces(_, _)
\* the first position from i on that holds no whitespace (Len+1 when there is none)
SkipSpaces(text, i) ==
    IF i <= Len(text) /\ IsSpace(CharAt(text, i)) THEN SkipSpaces(text, i + 1) ELSE i

RECURSIVE SkipDigits(_, _)
\* the first position from i on that holds no digit (Len+1 when there is none)
SkipDigits(text, i) ==
    IF i <= Len(text) /\ CharAt(text, i) \in Digits THEN SkipDigits(text, i + 1) ELSE i

\* the positions where the regex top\s+(\d+) matches
TopMatches(text) ==
    {i \in Occurrences(text, "top") :
        /\ i + 3 <= Len(text)
        /\ IsSpace(CharAt(text, i + 3))
        /\ SkipSpaces(text, i + 3) <= Len(text)
        /\ CharAt(text, SkipSpaces(text, i + 3)) \in Digits}

\* extract_top_n without the clamp to 1
extract_top_n_NoClamp(msg) ==
    LET text == Lower(msg)
        ms == TopMatches(text)
    IN IF ms = {} THEN None
       ELSE LET i == CHOOSE x \in ms : \A y \in ms : x <= y
                d == SkipSpaces(text, i + 3)
                e == SkipDigits(text, d)
            IN Some(ParseInt(SubSeq(text, d, e - 1)))

\* re.search takes the leftmost match and \d+ is greedy.  int() of ASCII
\* digits does not raise, so the ValueError branch is not reached here.
extract_top_n(msg) ==
    LET text == Lower(msg)
        ms == TopMatches(text)
    IN IF ms = {} THEN None
       ELSE LET i == CHOOSE x \in ms : \A y \in ms : x <= y
                d == SkipSpaces(text, i + 3)
                e == SkipDigits(text, d)
            IN Some(Max(1, ParseInt(SubSeq(text, d, e - 1))))

parse_user_message(msg) ==
    ParsedQuery(detect_intent(msg), extract_years(msg), extract_regions(msg), extract_top_n(msg))

-----------------------------------------------------------------------------
(* app/analytics_engine.py: the aggregators.  An aggregator yields the set   *)
(* of results it can return: pandas' default sort is not stable, so rows     *)
(* with equal sums can come out in any order.  Beside the AnalysisResult,    *)
(* each outcome records which filters were applied to the rows.              *)

AnalysisResult(intent, table, years, regions, description) ==
    [intent |-> intent, table |-> table, years |-> years, regions |-> regions,
     description |-> description]

Description(label, n, years, regions) ==
    [label |-> label, n |-> n, years |-> years, regions |-> regions]

\* Python truthiness of an optional list: None and [] are false
Truthy(opt) == opt # None /\ opt[1] # <<>>

\* `x or []`
OrEmpty(opt) == IF Truthy(opt) THEN opt[1] ELSE <<>>

\* `x or None`
OrNone(list) == IF list # <<>> THEN Some(list) ELSE None

RECURSIVE SumSales(_)
\* Series.sum(): 0 for no rows
SumSales(rows) ==
    IF rows = {} THEN 0
    ELSE LET r == CHOOSE x \in rows : TRUE
         IN r.total_sales + SumSales(rows \ {r})

\* round(float(total), 2): amounts are whole cents, which rounding to two
\* decimals leaves as they are
Round2(cents) == cents

\* a filter that falls back to all the rows when it would leave none
filter_data_KeepAllWhenEmpty(df, years, regions) ==
    LET by_year == IF Truthy(years) THEN {r \in df : r.year \in Range(years[1])} ELSE df
        by_region == IF Truthy(regions)
                     THEN {r \in by_year : r.region \in Range(regions[1])}
                     ELSE by_year
    IN [rows |-> IF by_region = {} THEN df ELSE by_region,
        years |-> IF Truthy(years) THEN years ELSE None,
        regions |-> IF Truthy(regions) THEN regions ELSE None]

filter_data(df, years, regions) ==
    LET by_year == IF Truthy(years) THEN {r \in df : r.year \in Range(years[1])} ELSE df
        by_region == IF Truthy(regions)
                     THEN {r \in by_year : r.region \in Range(regions[1])}
                     ELSE by_year
    IN [rows |-> by_region,
        years |-> IF Truthy(years) THEN years ELSE None,
        regions |-> IF Truthy(regions) THEN regions ELSE None]

\* all orders of the keys in which the sums never increase: sort_values(ascending=False)
DescendingOrders(keys, total) ==
    {s \in [1..Cardinality(keys) -> keys] :
        /\ \A i, j \in 1..Cardinality(keys) : i # j => s[i] # s[j]
        /\ \A i \in 1..(Cardinality(keys) - 1) : total[s[i]] >= total[s[i + 1]]}

\* no truncation at all
HeadRows_All(seq, n) == seq

\* DataFrame.head(n): the first n rows, or all but the last -n for n < 0
HeadRows(seq, n) ==
    IF n >= 0 THEN SubSeq(seq, 1, Min(n, Len(seq)))
    ELSE SubSeq(seq, 1, Max(0, Len(seq) + n))

total_sales(df, years, regions) ==
    LET f == filter_data(df, years, regions)
        total == SumSales(f.rows)
        table == <<[total_sales |-> Round2(total)]>>
        desc == Description("Total sales", None, OrEmpty(years), OrEmpty(regions))
    IN {[result |-> AnalysisResult("total_sales", table, OrEmpty(years), OrEmpty(regions), desc),
         applied |-> [years |-> f.years, regions |-> f.regions]]}

top_n_products(df, n, years, regions) ==
    LET f == filter_data(df, years, regions)
        products == {r.product : r \in f.rows}
        total == [p \in products |-> SumSales({r \in f.rows : r.product = p})]
        desc == Description("Top n products by sales", Some(n), OrEmpty(years), OrEmpty(regions))
    IN {[result |-> AnalysisResult("top_products",
                        HeadRows([i \in 1..Len(s) |-> [product |-> s[i], total_sales |-> total[s[i]]]], n),
                        OrEmpty(years), OrEmpty(regions), desc),
         applied |-> [years |-> f.years, regions |-> f.regions]]
        : s \in DescendingOrders(products, total)}

sales_by_region(df, years) ==
    LET f == filter_data(df, years, None)
        regs == {r.region : r \in f.rows}
        total == [g \in regs |-> SumSales({r \in f.rows : r.region = g})]
        desc == Description("Sales by region", None, OrEmpty(years), <<>>)
    IN {[result |-> AnalysisResult("sales_by_region",
                        [i \in 1..Len(s) |-> [region |-> s[i], total_sales |-> total[s[i]]]],
                        OrEmpty(years), s, desc),
         applied |-> [years |-> f.years, regions |-> f.regions]]
        : s \in DescendingOrders(regs, total)}

\* monthly_trend that leaves the regions field empty
monthly_trend_NoRegionsField(df, year, region) ==
    LET by_year == IF year # None THEN {r \in df : r.year = year[1]} ELSE df
        rows == IF region # None THEN {r \in by_year : r.region = region[1]} ELSE by_year
        years == IF year # None THEN <<year[1]>> ELSE <<>>
        months == SortedSeq({r.month : r \in rows})
        table == [i \in 1..Len(months) |->
                    [month |-> months[i],
                     total_sales |-> SumSales({r \in rows : r.month = months[i]})]]
        desc == Description("Monthly sales trend", None, years, <<>>)
    IN {[result |-> AnalysisResult("monthly_trend", table, years, <<>>, desc),
         applied |-> [years |-> IF year # None THEN Some(<<year[1]>>) ELSE None,
                      regions |-> IF region # None THEN Some(<<region[1]>>) ELSE None]]}

monthly_trend(df, year, region) ==
    LET by_year == IF year # None THEN {r \in df : r.year = year[1]} ELSE df
        rows == IF region # None THEN {r \in by_year : r.region = region[1]} ELSE by_year
        years == IF year # None THEN <<year[1]>> ELSE <<>>
        regions == IF region # None THEN <<region[1]>> ELSE <<>>
        months == SortedSeq({r.month : r \in rows})
        table == [i \in 1..Len(months) |->
                    [month |-> months[i],
                     total_sales |-> SumSales({r \in rows : r.month = months[i]})]]
        desc == Description("Monthly sales trend", None, years, regions)
    IN {[result |-> AnalysisResult("monthly_trend", table, years, regions, desc),
         applied |-> [years |-> IF year # None THEN Some(<<year[1]>>) ELSE None,
                      regions |-> IF region # None THEN Some(<<region[1]>>) ELSE None]]}

\* year_comparison that falls back to all years only when none was requested
year_comparison_FallbackOnlyWhenNone(df, years, region) ==
    LET used == IF ~Truthy(years)
                THEN SortedSeq({r.year : r \in df})
                ELSE years[1]
        f == filter_data(df, Some(used), IF region # None THEN Some(<<region[1]>>) ELSE None)
        present == SortedSeq({r.year : r \in f.rows})
        table == [i \in 1..Len(present) |->
                    [year |-> present[i],
                     total_sales |-> SumSales({r \in f.rows : r.year = present[i]})]]
        regions == IF region # None THEN <<region[1]>> ELSE <<>>
        desc == Description("Year-on-year sales comparison", None, <<>>, regions)
    IN {[result |-> AnalysisResult("year_comparison", table, used, regions, desc),
         applied |-> [years |-> f.years, regions |-> f.regions]]}

year_comparison(df, years, region) ==
    LET used == IF ~Truthy(years) \/ Len(years[1]) < 2
                THEN SortedSeq({r.year : r \in df})
                ELSE years[1]
        f == filter_data(df, Some(used), IF region # None THEN Some(<<region[1]>>) ELSE None)
        present == SortedSeq({r.year : r \in f.rows})
        table == [i \in 1..Len(present) |->
                    [year |-> present[i],
                     total_sales |-> SumSales({r \in f.rows : r.year = present[i]})]]
        regions == IF region # None THEN <<region[1]>> ELSE <<>>
        desc == Description("Year-on-year sales comparison", None, <<>>, regions)
    IN {[result |-> AnalysisResult("year_comparison", table, used, regions, desc),
         applied |-> [years |-> f.years, regions |-> f.regions]]}

-----------------------------------------------------------------------------
(* app/main.py: the analytics router *)

DefaultTopN == 5

\* one call of an aggregator: its name, the parameters passed and their values
Call(fn, passed, n, years, regions, year, region) ==
    [fn |-> fn, passed |-> passed, n |-> n, years |-> years, regions |-> regions,
     year |-> year, region |-> region]

NoFilter == [years |-> None, regions |-> None]

\* `parsed.top_n or 5`
TopNOrDefault(top_n) == IF top_n # None /\ top_n[1] # 0 THEN top_n[1] ELSE DefaultTopN

\* the last element instead of the first
FirstOrNone_Last(opt) == IF Truthy(opt) THEN Some(opt[1][Len(opt[1])]) ELSE None

\* `xs[0] if xs else None`
FirstOrNone(opt) == IF Truthy(opt) THEN Some(opt[1][1]) ELSE None

\* the outcomes of a handle_query that calls one aggregator
Routed(call, outcomes) ==
    {[calls |-> <<call>>, result |-> Some(o.result), applied |-> o.applied] : o \in outcomes}

\* handle_query that answers an unmapped intent with the overall total
handle_query_FallsBackToTotal(msg, df, q) ==
    LET intent == q.intent
        years == OrNone(q.years)
        regions == OrNone(q.regions)
    IN IF intent = "top_products"
       THEN LET n == TopNOrDefault(q.top_n)
            IN Routed(Call("top_n_products", {"n", "years", "regions"}, Some(n), years, regions, None, None),
                      top_n_products(df, n, years, regions))
       ELSE IF intent = "sales_by_region"
       THEN Routed(Call("sales_by_region", {"years"}, None, years, None, None, None),
                   sales_by_region(df, years))
       ELSE IF intent = "monthly_trend"
       THEN LET year == FirstOrNone(years)
                region == FirstOrNone(regions)
            IN Routed(Call("monthly_trend", {"year", "region"}, None, None, None, year, region),
                      monthly_trend(df, year, region))
       ELSE IF intent = "year_comparison"
       THEN LET region == FirstOrNone(regions)
            IN Routed(Call("year_comparison", {"years", "region"}, None, years, None, None, region),
                      year_comparison(df, years, region))
       ELSE Routed(Call("total_sales", {"years", "regions"}, None, years, regions, None, None),
                   total_sales(df, years, regions))

handle_query(msg, df, q) ==
    LET intent == q.intent
        years == OrNone(q.years)
        regions == OrNone(q.regions)
    IN IF intent = "total_sales"
       THEN Routed(Call("total_sales", {"years", "regions"}, None, years, regions, None, None),
                   total_sales(df, years, regions))
       ELSE IF intent = "top_products"
       THEN LET n == TopNOrDefault(q.top_n)
            IN Routed(Call("top_n_products", {"n", "years", "regions"}, Some(n), years, regions, None, None),
                      top_n_products(df, n, years, regions))
       ELSE IF intent = "sales_by_region"
       THEN Routed(Call("sales_by_region", {"years"}, None, years, None, None, None),
                   sales_by_region(df, years))
       ELSE IF intent = "monthly_trend"
       THEN LET year == FirstOrNone(years)
                region == FirstOrNone(regions)
            IN Routed(Call("monthly_trend", {"year", "region"}, None, None, None, year, region),
                      monthly_trend(df, year, region))
       ELSE IF intent = "year_comparison"
       THEN LET region == FirstOrNone(regions)
            IN Routed(Call("year_comparison", {"years", "region"}, None, years, None, None, region),
                      year_comparison(df, years, region))
       ELSE {[calls |-> <<>>, result |-> None, applied |-> NoFilter]}

-----------------------------------------------------------------------------
(* app/insight_generator.py: the summarizer, and app/visualization.py *)

\* f"${value:,.0f}": whole dollars, halves rounded to the even dollar
format_currency(cents) ==
    LET q == cents \div 100
        r == cents % 100
    IN IF r > 50 \/ (r = 50 /\ q % 2 = 1) THEN q + 1 ELSE q

Returned(text) == [raised |-> "", text |-> Some(text)]

Raised(error) == [raised |-> error, text |-> None]

\* the first index holding the largest (sign = 1) or smallest (sign = -1)
\* total: Series.idxmax() and Series.idxmin()
FirstExtreme(table, sign) ==
    CHOOSE i \in 1..Len(table) :
        /\ \A j \in 1..Len(table) : sign * table[i].total_sales >= sign * table[j].total_sales
        /\ \A j \in 1..(i - 1) : table[j].total_sales # table[i].total_sales

\* The text is modelled by what it is built from: the description and the
\* keys and formatted amounts it cites, in the order cited.  df.iloc[0] of an
\* empty table raises IndexError, idxmax of an empty column ValueError.
summarize(res) ==
    LET df == res.table
    IN IF res.intent = "total_sales"
       THEN Returned([description |-> res.description,
                      cited |-> <<[amount |-> format_currency(df[1].total_sales)]>>])
       ELSE IF res.intent = "top_products"
       THEN Returned([description |-> res.description,
                      cited |-> [i \in 1..Len(df) |->
                                   [product |-> df[i].product,
                                    amount |-> format_currency(df[i].total_sales)]]])
       ELSE IF res.intent = "sales_by_region"
       THEN IF df = <<>> THEN Raised("IndexError")
            ELSE Returned([description |-> res.description,
                           cited |-> <<[region |-> df[1].region,
                                        amount |-> format_currency(df[1].total_sales)],
                                       [region |-> df[Len(df)].region,
                                        amount |-> format_currency(df[Len(df)].total_sales)]>>])
       ELSE IF res.intent = "monthly_trend"
       THEN IF df = <<>> THEN Raised("IndexError")
            ELSE Returned([description |-> res.description,
                           direction |-> IF df[Len(df)].total_sales >= df[1].total_sales
                                         THEN "increased" ELSE "decreased",
                           cited |-> <<[month |-> df[1].month,
                                        amount |-> format_currency(df[1].total_sales)],
                                       [month |-> df[Len(df)].month,
                                        amount |-> format_currency(df[Len(df)].total_sales)]>>])
       ELSE IF res.intent = "year_comparison"
       THEN IF df = <<>> THEN Raised("ValueError")
            ELSE LET best == df[FirstExtreme(df, 1)]
                     worst == df[FirstExtreme(df, -1)]
                 IN Returned([description |-> res.description,
                              cited |-> <<[year |-> best.year,
                                           amount |-> format_currency(best.total_sales)],
                                          [year |-> worst.year,
                                           amount |-> format_currency(worst.total_sales)]>>])
       ELSE Returned([description |-> "No clear insight available for this query."])

\* the path of the chart file, or None when no chart is drawn
visualize_result(res) ==
    IF res.intent \in {"top_products", "sales_by_region"} THEN Some(res.intent \o "_bar.png")
    ELSE IF res.intent \in {"monthly_trend", "year_comparison"} THEN Some(res.intent \o "_line.png")
    ELSE None

-----------------------------------------------------------------------------
(* The inputs: messages, datasets and queries *)

\* the keywords of the intent rules, years, counts and a filler word
Vocabulary ==
    {"compare", "vs", "versus", "trend", "over time", "monthly",
     "region", "North", "south", "east", "west",
     "Top", "best", "highest", "total", "overall", "revenue",
     "2022", "2023", "1999", "20231", "3", "0", "sales",
     "compare 2023", "stop"}

RECURSIVE MessagesOfLength(_)
\* the texts of exactly k vocabulary entries separated by single spaces
MessagesOfLength(k) ==
    IF k = 0 THEN {""}
    ELSE IF k = 1 THEN Vocabulary
    ELSE {m \o " " \o w : m \in MessagesOfLength(k - 1), w \in Vocabulary}

Messages == UNION {MessagesOfLength(k) : k \in 0..MaxWords}

Row(id, year, month, region, product, amount) ==
    [id |-> id, year |-> year, month |-> month, region |-> region, product |-> product,
     total_sales |-> amount]

RowUniverse ==
    {Row(1, 2022, 1, "North", "Laptop", 250),
     Row(2, 2022, 2, "South", "Tablet", 250),
     Row(3, 2023, 1, "North", "Laptop", 100),
     Row(4, 2023, 2, "South", "Printer", 150),
     Row(5, 2023, 3, "East", "Tablet", 300),
     Row(6, 2022, 1, "North", "Printer", 400)}

Datasets == {d \in SUBSET RowUniverse : Cardinality(d) <= MaxRows}

Intents == {"total_sales", "top_products", "sales_by_region", "monthly_trend",
            "year_comparison", "unknown"}

MappedIntents == Intents \ {"unknown"}

\* the year lists extract_years can produce: ascending, without duplicates
QueryYears == {SortedSeq(S) : S \in SUBSET {2022, 2023, 2030}}

\* the region lists extract_regions can produce: in the order of REGIONS
QueryRegions ==
    {SelectSeq(<<"North", "South", "West">>, LAMBDA r : r \in S) : S \in SUBSET {"North", "South", "West"}}

ParsedQueries ==
    {ParsedQuery(i, y, r, n) :
        i \in Intents \cup {"forecast"}, y \in QueryYears, r \in QueryRegions,
        n \in {None, Some(1), Some(2)}}

\* what the console can be given
CliMessages ==
    {"exit", " Quit ", "help", "export pdf", "Export PDF please", "hello",
     "total sales", "top 2 products", "sales by region 2022", "sales by region for 2030",
     "monthly trend for 2022 in North", "compare 2022 vs 2023"}

CliDatasets == {RowUniverse, {r \in RowUniverse : r.year = 2023}}

-----------------------------------------------------------------------------
(* The interpreter and the router as single steps *)

NoMemory ==
    /\ last_result = None
    /\ last_summary = None
    /\ last_chart_path = None
    /\ history = <<>>

InitNLP ==
    /\ pc = "input"
    /\ data = RowUniverse
    /\ message \in Messages
    /\ parsed = None
    /\ calls = <<>>
    /\ result = None
    /\ applied = NoFilter
    /\ NoMemory

InitAgg ==
    /\ pc = "parsed"
    /\ data \in Datasets
    /\ message = ""
    /\ parsed \in {Some(q) : q \in ParsedQueries}
    /\ calls = <<>>
    /\ result = None
    /\ applied = NoFilter
    /\ NoMemory

\* run_cli lines 85 and 94: parse the message, then route the parsed query
Interpret ==
    /\ pc = "input"
    /\ LET q == parse_user_message(message)
       IN /\ parsed' = Some(q)
          /\ \E out \in handle_query(message, data, q) :
                /\ calls' = out.calls
                /\ result' = out.result
                /\ applied' = out.applied
    /\ pc' = "routed"
    /\ UNCHANGED <<data, message, last_result, last_summary, last_chart_path, history>>

\* handle_query on a given ParsedQuery
Route ==
    /\ pc = "parsed"
    /\ \E out \in handle_query(message, data, parsed[1]) :
          /\ calls' = out.calls
          /\ result' = out.result
          /\ applied' = out.applied
    /\ pc' = "routed"
    /\ UNCHANGED <<data, message, parsed, last_result, last_summary, last_chart_path, history>>

SpecNLP == InitNLP /\ [][Interpret]_vars

SpecAgg == InitAgg /\ [][Route]_vars

-----------------------------------------------------------------------------
(* app/main.py: run_cli, the console read loop.  One action per branch of   *)
(* the loop body; each reads a message and handles it to the end.           *)

\* one entry of the log: what the iteration that read msg did
Event(msg, kind, res, summary, chart_path, exported) ==
    [msg |-> msg, kind |-> kind, result |-> res, summary |-> summary,
     chart_path |-> chart_path, exported |-> exported]

\* `if last_result and last_summary`: an AnalysisResult object is always
\* true, a summary string is true unless empty, and no summary is empty
CanExport == last_result # None /\ last_summary # None

\* the assignments with the chart path left as it was
Remember_StaleChart(res, summary, chart_path) ==
    [last_result |-> Some(res), last_summary |-> Some(summary), last_chart_path |-> last_chart_path]

\* the three assignments after a query was summarized and charted
Remember(res, summary, chart_path) ==
    [last_result |-> Some(res), last_summary |-> Some(summary), last_chart_path |-> chart_path]

IsQuit(m) == Lower(m) \in {"exit", "quit", "q"}

IsHelp(m) == Lower(m) \in {"help", "examples"}

IsExport(m) == StartsWith(Lower(m), "export pdf")

Init ==
    /\ pc = "read"
    /\ data \in CliDatasets
    /\ message = ""
    /\ parsed = None
    /\ calls = <<>>
    /\ result = None
    /\ applied = NoFilter
    /\ NoMemory

Reading(line) ==
    /\ pc = "read"
    /\ Len(history) < MaxSteps
    /\ message' = Strip(line)

KeepMemory == UNCHANGED <<last_result, last_summary, last_chart_path>>

KeepQuery == UNCHANGED <<parsed, calls, result, applied>>

Quit(line) ==
    /\ Reading(line)
    /\ IsQuit(message')
    /\ pc' = "done"
    /\ history' = Append(history, Event(message', "exit", None, None, None, None))
    /\ KeepMemory /\ KeepQuery /\ UNCHANGED data

Help(line) ==
    /\ Reading(line)
    /\ ~IsQuit(message')
    /\ IsHelp(message')
    /\ history' = Append(history, Event(message', "help", None, None, None, None))
    /\ KeepMemory /\ KeepQuery /\ UNCHANGED <<pc, data>>

\* export_pdf(last_summary, last_result, chart_path=last_chart_path), or the
\* reply that there is no previous insight
ExportPdf(line) ==
    /\ Reading(line)
    /\ ~IsQuit(message') /\ ~IsHelp(message')
    /\ IsExport(message')
    /\ history' = Append(history,
            IF CanExport
            THEN Event(message', "export", None, None, None,
                       Some([summary |-> last_summary[1], result |-> last_result[1],
                             chart_path |-> last_chart_path]))
            ELSE Event(message', "nothing_to_export", None, None, None, None))
    /\ KeepMemory /\ KeepQuery /\ UNCHANGED <<pc, data>>

Unknown(line) ==
    /\ Reading(line)
    /\ ~IsQuit(message') /\ ~IsHelp(message') /\ ~IsExport(message')
    /\ LET q == parse_user_message(message')
       IN /\ q.intent = "unknown"
          /\ parsed' = Some(q)
    /\ history' = Append(history, Event(message', "unknown", None, None, None, None))
    /\ KeepMemory /\ UNCHANGED <<pc, data, calls, result, applied>>

\* a message with a recognized intent: route it, summarize, chart, remember.
\* An exception raised by summarize is caught nowhere and ends the process.
Query(line) ==
    /\ Reading(line)
    /\ ~IsQuit(message') /\ ~IsHelp(message') /\ ~IsExport(message')
    /\ LET q == parse_user_message(message')
       IN /\ q.intent # "unknown"
          /\ parsed' = Some(q)
          /\ \E out \in handle_query(message', data, q) :
                /\ calls' = out.calls
                /\ result' = out.result
                /\ applied' = out.applied
                /\ IF out.result = None
                   THEN /\ history' = Append(history, Event(message', "no_result", None, None, None, None))
                        /\ KeepMemory /\ UNCHANGED pc
                   ELSE LET s == summarize(out.result[1])
                        IN IF s.raised # ""
                           THEN /\ pc' = "crashed"
                                /\ history' = Append(history,
                                        Event(message', s.raised, out.result, None, None, None))
                                /\ KeepMemory
                           ELSE LET chart_path == visualize_result(out.result[1])
                                    mem == Remember(out.result[1], s.text[1], chart_path)
                                IN /\ last_result' = mem.last_result
                                   /\ last_summary' = mem.last_summary
                                   /\ last_chart_path' = mem.last_chart_path
                                   /\ history' = Append(history,
                                           Event(message', "answered", out.result, s.text, chart_path, None))
                                   /\ UNCHANGED pc
    /\ UNCHANGED data

Next ==
    \E line \in CliMessages :
        \/ Quit(line)
        \/ Help(line)
        \/ ExportPdf(line)
        \/ Unknown(line)
        \/ Query(line)

Spec == Init /\ [][Next]_vars

-----------------------------------------------------------------------------
(* Properties.  Q is the parsed query of the state, R its result.           *)

Q == parsed[1]

R == result[1]

Routing == pc = "routed"

Ascending(seq) == \A i \in 1..(Len(seq) - 1) : seq[i] < seq[i + 1]

\* the rows a year list and a region list select; an empty list selects all
Selected(years, regions) ==
    {r \in data : /\ (years = <<>> \/ r.year \in Range(years))
                  /\ (regions = <<>> \/ r.region \in Range(regions))}

\* the intent rules as the ordered list of the specification
RuleMatches(k, text) ==
    CASE k = 1 -> /\ Contains(text, "compare") \/ Contains(text, "vs") \/ Contains(text, "versus")
                  /\ YearMatches(text) # {}
      [] k = 2 -> Contains(text, "trend") \/ Contains(text, "over time") \/ Contains(text, "monthly")
      [] k = 3 -> \/ Contains(text, "region")
                  \/ Contains(text, "north") \/ Contains(text, "south")
                  \/ Contains(text, "east") \/ Contains(text, "west")
      [] k = 4 -> Contains(text, "top") \/ Contains(text, "best") \/ Contains(text, "highest")
      [] k = 5 -> Contains(text, "total") \/ Contains(text, "overall") \/ Contains(text, "revenue")
      [] OTHER -> TRUE

RuleIntent ==
    <<"year_comparison", "monthly_trend", "sales_by_region", "top_products", "total_sales", "unknown">>

FirstRule(text) == CHOOSE k \in 1..6 : RuleMatches(k, text) /\ \A j \in 1..(k - 1) : ~RuleMatches(j, text)

\* C1: the intent of a message is the intent of the first rule of the ordered
\* list that matches its text (letter case ignored); in particular a message
\* that contains "compare" and a word-bounded year 20dd has the intent
\* year_comparison, whatever other keywords it holds.
C1_FirstMatchingRuleWins ==
    Routing =>
        /\ Q.intent = RuleIntent[FirstRule(Lower(message))]
        /\ (Contains(Lower(message), "compare") /\ YearMatches(Lower(message)) # {}
                => Q.intent = "year_comparison")

\* a message with "compare", a year and a keyword of a later rule was interpreted
C1_Witness ==
    /\ Routing
    /\ Contains(Lower(message), "compare")
    /\ YearMatches(Lower(message)) # {}
    /\ \E k \in 2..5 : RuleMatches(k, Lower(message))
    /\ Q.intent = "year_comparison"

AggregatorOf(intent) ==
    CASE intent = "total_sales" -> "total_sales"
      [] intent = "top_products" -> "top_n_products"
      [] intent = "sales_by_region" -> "sales_by_region"
      [] intent = "monthly_trend" -> "monthly_trend"
      [] intent = "year_comparison" -> "year_comparison"

\* C2: for a mapped intent handle_query calls exactly one aggregator, the one
\* of that intent, and the result carries the query's intent; for unknown or
\* any other intent it calls none and returns None.
C2_DispatchExactlyOne ==
    Routing =>
        IF Q.intent \in MappedIntents
        THEN /\ Len(calls) = 1
             /\ calls[1].fn = AggregatorOf(Q.intent)
             /\ result # None
             /\ R.intent = Q.intent
        ELSE calls = <<>> /\ result = None

\* a mapped intent was dispatched on a dataset with rows
C2_Witness ==
    /\ Routing
    /\ data # {}
    /\ Q.intent = "monthly_trend"
    /\ Len(calls) = 1
    /\ R.intent = "monthly_trend"
    /\ R.table # <<>>

\* C3: handling a message with a recognized intent never ends the read loop
\* in an uncaught error.
C3_NoHardFailure == pc # "crashed"

\* the indexes of the log entries of successfully answered queries
Answered(h) == {i \in 1..Len(h) : h[i].kind = "answered"}

\* what run_cli should remember after the log h: the result, summary and
\* chart path of the last answered query, or nothing
Expected(h) ==
    IF Answered(h) = {}
    THEN [last_result |-> None, last_summary |-> None, last_chart_path |-> None]
    ELSE LET i == CHOOSE x \in Answered(h) : \A y \in Answered(h) : y <= x
         IN [last_result |-> h[i].result, last_summary |-> h[i].summary,
             last_chart_path |-> h[i].chart_path]

\* C4: after any sequence of messages the memory holds the result, summary and
\* chart path of the most recent answered query (nothing before the first);
\* an export command exports exactly those three, and exports nothing and
\* says so when no query was answered yet.
C4_LastResultMemory ==
    /\ last_result = Expected(history).last_result
    /\ last_summary = Expected(history).last_summary
    /\ last_chart_path = Expected(history).last_chart_path
    /\ \A i \in 1..Len(history) :
          LET before == Expected(SubSeq(history, 1, i - 1))
          IN /\ IsExport(history[i].msg) => history[i].kind \in {"export", "nothing_to_export"}
             /\ history[i].kind = "nothing_to_export" => before.last_result = None
             /\ history[i].kind = "export" =>
                   /\ before.last_result # None
                   /\ history[i].exported =
                         Some([summary |-> before.last_summary[1],
                               result |-> before.last_result[1],
                               chart_path |-> before.last_chart_path])

\* two different queries were answered, then an export exported the second
C4_Witness ==
    /\ Len(history) = 3
    /\ history[1].kind = "answered"
    /\ history[2].kind = "answered"
    /\ history[1].result # history[2].result
    /\ history[1].chart_path # history[2].chart_path
    /\ history[3].kind = "export"
    /\ history[3].exported[1].result = history[2].result[1]

\* the rows and the table Year Comparison should produce for the query
YearsUsed == IF Len(Q.years) < 2 THEN SortedSeq({r.year : r \in data}) ELSE Q.years

YearRows == Selected(YearsUsed, IF Q.regions = <<>> THEN <<>> ELSE <<Q.regions[1]>>)

\* C5: Year Comparison with fewer than two requested years aggregates over all
\* the years of the dataset, with two or more over exactly those; the table
\* has one row per year with rows after filtering, in ascending year order,
\* with the sum of that year, and the years field lists the years used in
\* ascending order.
C5_YearComparisonFallback ==
    (Routing /\ Q.intent = "year_comparison") =>
        /\ R.years = YearsUsed
        /\ Ascending(R.years)
        /\ Ascending([i \in 1..Len(R.table) |-> R.table[i].year])
        /\ {R.table[i].year : i \in 1..Len(R.table)} = {r.year : r \in YearRows}
        /\ \A i \in 1..Len(R.table) :
              R.table[i].total_sales = SumSales({r \in YearRows : r.year = R.table[i].year})

\* one year was requested and the comparison covers the two years of the data
C5_Witness ==
    /\ Routing
    /\ Q.intent = "year_comparison"
    /\ Q.years = <<2023>>
    /\ R.years = <<2022, 2023>>
    /\ Len(R.table) = 2

ProductTotal(rows, p) == SumSales({r \in rows : r.product = p})

\* C6: Top-N Products with N >= 1 returns min(N, number of distinct products
\* in the filtered rows) rows, one per product with its sum, ordered by sum
\* descending, and no product left out has a larger sum than a product kept.
C6_TopNLength ==
    (Routing /\ Q.intent = "top_products" /\ calls[1].n[1] >= 1) =>
        LET rows == Selected(Q.years, Q.regions)
            products == {r.product : r \in rows}
            kept == {R.table[i].product : i \in 1..Len(R.table)}
        IN /\ Len(R.table) = Min(calls[1].n[1], Cardinality(products))
           /\ Cardinality(kept) = Len(R.table)
           /\ kept \subseteq products
           /\ \A i \in 1..Len(R.table) :
                 R.table[i].total_sales = ProductTotal(rows, R.table[i].product)
           /\ \A i \in 1..(Len(R.table) - 1) :
                 R.table[i].total_sales >= R.table[i + 1].total_sales
           /\ \A p \in products \ kept : \A k \in kept :
                 ProductTotal(rows, p) <= ProductTotal(rows, k)

\* three products were ranked and the top two returned
C6_Witness ==
    /\ Routing
    /\ Q.intent = "top_products"
    /\ calls[1].n = Some(2)
    /\ Cardinality({r.product : r \in Selected(Q.years, Q.regions)}) = 3
    /\ Len(R.table) = 2

\* the rows the filters applied by the aggregator select
AppliedRows == Selected(OrEmpty(applied.years), OrEmpty(applied.regions))

\* C7: when the year and region filters leave no rows, every aggregator still
\* returns a result: Total Sales a single row with total 0, the other four an
\* empty table.
C7_EmptyFilterResult ==
    (Routing /\ Q.intent \in MappedIntents /\ AppliedRows = {}) =>
        /\ result # None
        /\ IF Q.intent = "total_sales"
           THEN R.table = <<[total_sales |-> 0]>>
           ELSE R.table = <<>>

\* a dataset with rows was filtered by a region it does not hold
C7_Witness ==
    /\ Routing
    /\ data # {}
    /\ Q.intent = "year_comparison"
    /\ applied.regions = Some(<<"West">>)
    /\ AppliedRows = {}
    /\ R.table = <<>>

\* C8: the router passes to Sales By Region the years alone (every region of
\* the year-filtered rows is in the table, whatever regions were extracted),
\* to Monthly Trend the first, smallest, year and the first region or None,
\* and to Year Comparison the whole year list and the first region or None.
C8_ParameterMapping ==
    Routing =>
        /\ Q.intent = "sales_by_region" =>
              /\ calls[1].passed = {"years"}
              /\ calls[1].years = OrNone(Q.years)
              /\ {R.table[i].region : i \in 1..Len(R.table)}
                    = {r.region : r \in Selected(Q.years, <<>>)}
        /\ Q.intent = "monthly_trend" =>
              /\ calls[1].passed = {"year", "region"}
              /\ calls[1].year = IF Q.years = <<>> THEN None ELSE Some(Q.years[1])
              /\ \A y \in Range(Q.years) : calls[1].year[1] <= y
              /\ calls[1].region = IF Q.regions = <<>> THEN None ELSE Some(Q.regions[1])
        /\ Q.intent = "year_comparison" =>
              /\ calls[1].passed = {"years", "region"}
              /\ calls[1].years = OrNone(Q.years)
              /\ calls[1].region = IF Q.regions = <<>> THEN None ELSE Some(Q.regions[1])

\* Monthly Trend was called for a query with two years and two regions
C8_Witness ==
    /\ Routing
    /\ Q.intent = "monthly_trend"
    /\ Q.years = <<2022, 2023>>
    /\ Q.regions = <<"North", "South">>
    /\ calls[1].year = Some(2022)
    /\ calls[1].region = Some("North")

\* C9: extract_top_n yields no value exactly when the text has no "top
\* <digits>", and otherwise a number >= 1; the router passes that number to
\* Top-N Products, or 5 when there is none, so the N passed is >= 1.
C9_TopNAtLeastOne ==
    Routing =>
        /\ Q.top_n = None <=> TopMatches(Lower(message)) = {}
        /\ Q.top_n # None => Q.top_n[1] >= 1
        /\ Q.intent = "top_products" =>
              /\ calls[1].n = Some(IF Q.top_n = None THEN 5 ELSE Q.top_n[1])
              /\ calls[1].n[1] >= 1

\* "top 0" was clamped to 1 and passed to Top-N Products
C9_Witness ==
    /\ Routing
    /\ Lower(message) = "top 0"
    /\ Q.top_n = Some(1)
    /\ calls[1].fn = "top_n_products"
    /\ calls[1].n = Some(1)

\* C10 as stated: the years and regions fields of every result are exactly
\* the filters applied to the rows, empty when none was applied.
C10_FieldsAreAppliedFilters ==
    (Routing /\ result # None) =>
        /\ R.years = OrEmpty(applied.years)
        /\ R.regions = OrEmpty(applied.regions)

\* C10 amended: the years field of every result, and the regions field of
\* every result but Sales By Region's, are exactly the filters applied;
\* Sales By Region applies no region filter and its regions field lists the
\* regions of its table, in table order.
C10_FieldsAreAppliedFiltersButRegionTable ==
    (Routing /\ result # None) =>
        /\ R.years = OrEmpty(applied.years)
        /\ IF R.intent = "sales_by_region"
           THEN /\ applied.regions = None
                /\ R.regions = [i \in 1..Len(R.table) |-> R.table[i].region]
           ELSE R.regions = OrEmpty(applied.regions)

\* Sales By Region returned a table of two regions, and so two regions in its
\* regions field, having applied a year filter only
C10_Witness ==
    /\ Routing
    /\ result # None
    /\ R.intent = "sales_by_region"
    /\ applied.years = Some(<<2022>>)
    /\ applied.regions = None
    /\ Len(R.regions) = 2

C11_RegionCaughtEarlier ==
    /\ Routing
    /\ Contains(Lower(message), "top")
    /\ Q.regions # <<>>
    /\ Q.intent = "sales_by_region"

=============================================================================
